---- MODULE Spec2Model ----
(***************************************************************************)
(* A model of the dynstr crate: the DynamicString rope (string.rs), its    *)
(* linear iterator (iterator.rs), the indexed form (indexed.rs), the       *)
(* pattern finder (pattern.rs) and the derived operations (methods.rs).    *)
(*                                                                         *)
(* A code unit is a natural number below 2^16.  A host string (&str) is a  *)
(* sequence of Unicode scalar values; its UTF-8 byte length and its UTF-16 *)
(* encoding are computed from the scalar values as the standard library    *)
(* computes them.                                                          *)
(***************************************************************************)
EXTENDS Integers, Sequences, FiniteSets, TLC

(***************************************************************************)
(* Option<T>                                                               *)
(***************************************************************************)
None == [some |-> FALSE]
Some(x) == [some |-> TRUE, v |-> x]

\* The outcome of a call that panics (an out-of-range vector index, the
\* "Out of bound." panic of IndexedString::at, an arithmetic overflow in a
\* build with overflow checks).
Panic == [panic |-> TRUE]

\* The mark a panicking traversal leaves at the end of the units collected
\* so far; it is no code unit.
PanicUnit == 0 - 1

Min(a, b) == IF a < b THEN a ELSE b

\* lib.rs: pub(crate) const MIN_SLICE_LENGTH: usize = 16;
MIN_SLICE_LENGTH == 16

\* `x as u8` on a 16-bit code unit.
as_u8(x) == x % 256

(***************************************************************************)
(* string.rs: enum DynamicString                                           *)
(***************************************************************************)
Empty == [t |-> "Empty"]
SingleOneByteChar(c) == [t |-> "SingleOneByteChar", c |-> c]
SingleTwoByteChar(c) == [t |-> "SingleTwoByteChar", c |-> c]
SeqOneByteString(v) == [t |-> "SeqOneByteString", v |-> v]
SeqTwoByteString(v) == [t |-> "SeqTwoByteString", v |-> v]
SlicedString(root, start, length) ==
    [t |-> "SlicedString", root |-> root, start |-> start, length |-> length]
ConsString(first, second) ==
    [t |-> "ConsString", first |-> first, second |-> second]

LeafVariants ==
    {"Empty", "SingleOneByteChar", "SingleTwoByteChar",
     "SeqOneByteString", "SeqTwoByteString"}

\* DynamicString::empty
empty == Empty

\* DynamicString::len
RECURSIVE len(_)
len(self) ==
    CASE self.t = "Empty" -> 0
      [] self.t \in {"SingleOneByteChar", "SingleTwoByteChar"} -> 1
      [] self.t \in {"SeqOneByteString", "SeqTwoByteString"} -> Len(self.v)
      [] self.t = "SlicedString" -> self.length
      [] self.t = "ConsString" -> len(self.first) + len(self.second)

\* DynamicString::has_one_byte_char
\* has_one_byte_char with a fault: a ConsString answers for its first
\* child only.
\* has_one_byte_char with a fault: a SlicedString answers true without
\* asking its root.  FlattenNarrowingLossless tells it from
\* has_one_byte_char.
RECURSIVE has_one_byte_char_slice_true(_)
has_one_byte_char_slice_true(self) ==
    CASE self.t \in {"Empty", "SingleOneByteChar", "SeqOneByteString"} -> TRUE
      [] self.t \in {"SingleTwoByteChar", "SeqTwoByteString"} -> FALSE
      [] self.t = "SlicedString" -> TRUE
      [] self.t = "ConsString" ->
            /\ has_one_byte_char_slice_true(self.first)
            /\ has_one_byte_char_slice_true(self.second)

RECURSIVE has_one_byte_char_first_only(_)
has_one_byte_char_first_only(self) ==
    CASE self.t \in {"Empty", "SingleOneByteChar", "SeqOneByteString"} -> TRUE
      [] self.t \in {"SingleTwoByteChar", "SeqTwoByteString"} -> FALSE
      [] self.t = "SlicedString" -> has_one_byte_char_first_only(self.root)
      [] self.t = "ConsString" -> has_one_byte_char_first_only(self.first)

RECURSIVE has_one_byte_char(_)
has_one_byte_char(self) ==
    CASE self.t \in {"Empty", "SingleOneByteChar", "SeqOneByteString"} -> TRUE
      [] self.t \in {"SingleTwoByteChar", "SeqTwoByteString"} -> FALSE
      [] self.t = "SlicedString" -> has_one_byte_char(self.root)
      [] self.t = "ConsString" ->
            has_one_byte_char(self.first) /\ has_one_byte_char(self.second)

(***************************************************************************)
(* Host strings: str::len (UTF-8 bytes), str::is_ascii, str::encode_utf16  *)
(***************************************************************************)
utf8_len(cp) ==
    IF cp < 128 THEN 1 ELSE IF cp < 2048 THEN 2 ELSE IF cp < 65536 THEN 3 ELSE 4

RECURSIVE str_len(_)
str_len(data) ==
    IF data = <<>> THEN 0 ELSE utf8_len(Head(data)) + str_len(Tail(data))

is_ascii(data) == \A k \in 1..Len(data) : data[k] < 128

\* One scalar value as UTF-16: itself, or a surrogate pair above the BMP.
utf16_of(cp) ==
    IF cp < 65536 THEN <<cp>>
    ELSE <<55296 + ((cp - 65536) \div 1024), 56320 + ((cp - 65536) % 1024)>>

RECURSIVE encode_utf16(_)
encode_utf16(data) ==
    IF data = <<>> THEN <<>>
    ELSE utf16_of(Head(data)) \o encode_utf16(Tail(data))

\* DynamicString::new
new(data) ==
    LET n == str_len(data)
        ascii == is_ascii(data)
    IN  CASE n = 0 -> empty
          [] n = 1 /\ ascii -> SingleOneByteChar(data[1])
          [] n = 2 /\ ~ascii -> SingleTwoByteChar(encode_utf16(data)[1])
          [] n # 0 /\ ~(n = 1) /\ ascii -> SeqOneByteString(data)
          [] OTHER -> SeqTwoByteString(encode_utf16(data))

(***************************************************************************)
(* iterator.rs: struct StringIterator                                      *)
(***************************************************************************)
\* IntoIterator for DynamicString
into_iter(self) ==
    [active_chunk |-> Some(self),
     chunk_index  |-> 0,
     end          |-> None,
     to_visit     |-> <<>>,
     size_hint    |-> len(self)]

\* StringIterator::advance_chunk; to_visit is a stack, its top is the last
\* element.
advance_chunk(self) ==
    IF self.to_visit = <<>>
    THEN [self EXCEPT !.active_chunk = None]
    ELSE LET top == self.to_visit[Len(self.to_visit)]
         IN  [self EXCEPT !.active_chunk = Some(top.chunk),
                          !.end = top.end,
                          !.chunk_index = 0,
                          !.to_visit = SubSeq(self.to_visit, 1, Len(self.to_visit) - 1)]

\* advance_slice_chunk with a fault: the bound inherited from an enclosing
\* slice is dropped.
advance_slice_chunk_own_end(self, root, start, length) ==
    LET ci == self.chunk_index + start
    IN  [self EXCEPT !.active_chunk = Some(root),
                     !.chunk_index = ci,
                     !.end = Some(ci + length)]

\* StringIterator::advance_slice_chunk
advance_slice_chunk(self, root, start, length) ==
    LET ci == self.chunk_index + start
    IN  [self EXCEPT !.active_chunk = Some(root),
                     !.chunk_index = ci,
                     !.end = IF self.end = None
                             THEN Some(ci + length)
                             ELSE Some(Min(start + self.end.v, start + length))]

\* StringIterator::advance_cons_chunk
advance_cons_chunk(self, first, second) ==
    IF self.end = None
    THEN [self EXCEPT !.active_chunk = Some(first),
                      !.to_visit = Append(@, [chunk |-> second, end |-> None])]
    ELSE LET end == self.end.v
             first_len == len(first)
         IN  IF first_len <= self.chunk_index
             THEN [self EXCEPT !.chunk_index = @ - first_len,
                               !.end = Some(end - first_len),
                               !.active_chunk = Some(second)]
             ELSE [self EXCEPT !.active_chunk = Some(first),
                               !.to_visit =
                                   IF end > first_len
                                   THEN Append(@, [chunk |-> second,
                                                   end |-> Some(end - first_len)])
                                   ELSE @]

\* StringIterator::actual_len
actual_len(self, n) ==
    IF self.end = None THEN n ELSE Min(self.end.v, n)

\* Iterator::next for StringIterator: the iterator after the call and what
\* the call returned.
RECURSIVE StringIterator_next(_)
StringIterator_next(self) ==
    IF self.active_chunk = None
    THEN [self |-> self, ret |-> None]
    ELSE LET part == self.active_chunk.v
         IN  CASE part.t = "Empty" ->
                    StringIterator_next(advance_chunk(self))
               [] part.t = "SlicedString" ->
                    StringIterator_next(
                        advance_slice_chunk(self, part.root, part.start, part.length))
               [] part.t = "ConsString" ->
                    StringIterator_next(
                        advance_cons_chunk(self, part.first, part.second))
               [] part.t \in {"SingleOneByteChar", "SingleTwoByteChar"} ->
                    [self |-> advance_chunk(self), ret |-> Some(part.c)]
               [] part.t \in {"SeqOneByteString", "SeqTwoByteString"} ->
                    IF self.chunk_index = actual_len(self, Len(part.v))
                    THEN StringIterator_next(advance_chunk(self))
                    ELSE IF self.chunk_index >= Len(part.v)
                         THEN [self |-> self, ret |-> Panic]
                         ELSE [self |-> [self EXCEPT !.chunk_index = @ + 1],
                               ret  |-> Some(part.v[self.chunk_index + 1])]

\* Iterator::collect on a StringIterator: next() until it returns None.
RECURSIVE collect(_)
collect(it) ==
    LET r == StringIterator_next(it)
    IN  IF r.ret = None THEN <<>>
        ELSE IF r.ret = Panic THEN <<PanicUnit>>
        ELSE <<r.ret.v>> \o collect(r.self)

\* DynamicString::iter followed by collect: the code units of a rope.
iter(self) == collect(into_iter(self))

\* nth with a fault: the unit returned from inside a chunk is not stepped
\* over.
RECURSIVE StringIterator_nth_keeps_chunk_index(_, _, _)
StringIterator_nth_keeps_chunk_index(self, n, overflow_checks) ==
    IF n = 0 THEN StringIterator_next(self)
    ELSE IF self.active_chunk = None THEN [self |-> self, ret |-> None]
    ELSE LET part == self.active_chunk.v
         IN  CASE part.t = "Empty" ->
                    StringIterator_nth_keeps_chunk_index(advance_chunk(self), n, overflow_checks)
               [] part.t = "SlicedString" ->
                    StringIterator_nth_keeps_chunk_index(
                        advance_slice_chunk(self, part.root, part.start, part.length),
                        n, overflow_checks)
               [] part.t = "ConsString" ->
                    StringIterator_nth_keeps_chunk_index(
                        advance_cons_chunk(self, part.first, part.second),
                        n, overflow_checks)
               [] part.t \in {"SingleOneByteChar", "SingleTwoByteChar"} ->
                    StringIterator_nth_keeps_chunk_index(advance_chunk(self), n - 1, overflow_checks)
               [] part.t \in {"SeqOneByteString", "SeqTwoByteString"} ->
                    LET length == actual_len(self, Len(part.v))
                        index == self.chunk_index + n
                    IN  IF index < length
                        THEN [self |-> [self EXCEPT !.chunk_index = index],
                              ret  |-> Some(part.v[index + 1])]
                        ELSE IF length < self.chunk_index /\ overflow_checks
                        THEN [self |-> self, ret |-> Panic]
                        ELSE StringIterator_nth_keeps_chunk_index(advance_chunk(self),
                                                n + self.chunk_index - length,
                                                overflow_checks)

\* Iterator::nth for StringIterator, one turn of its loop per unfolding.
\* `len - self.chunk_index` panics in a build with overflow checks when
\* chunk_index is above len; without them it wraps, and so does the
\* subtraction `n -= rem` after it, which leaves n + chunk_index - len.
RECURSIVE StringIterator_nth(_, _, _)
StringIterator_nth(self, n, overflow_checks) ==
    IF n = 0 THEN StringIterator_next(self)
    ELSE IF self.active_chunk = None THEN [self |-> self, ret |-> None]
    ELSE LET part == self.active_chunk.v
         IN  CASE part.t = "Empty" ->
                    StringIterator_nth(advance_chunk(self), n, overflow_checks)
               [] part.t = "SlicedString" ->
                    StringIterator_nth(
                        advance_slice_chunk(self, part.root, part.start, part.length),
                        n, overflow_checks)
               [] part.t = "ConsString" ->
                    StringIterator_nth(
                        advance_cons_chunk(self, part.first, part.second),
                        n, overflow_checks)
               [] part.t \in {"SingleOneByteChar", "SingleTwoByteChar"} ->
                    StringIterator_nth(advance_chunk(self), n - 1, overflow_checks)
               [] part.t \in {"SeqOneByteString", "SeqTwoByteString"} ->
                    LET length == actual_len(self, Len(part.v))
                        index == self.chunk_index + n
                    IN  IF index < length
                        THEN [self |-> [self EXCEPT !.chunk_index = index + 1],
                              ret  |-> Some(part.v[index + 1])]
                        ELSE IF length < self.chunk_index /\ overflow_checks
                        THEN [self |-> self, ret |-> Panic]
                        ELSE StringIterator_nth(advance_chunk(self),
                                                n + self.chunk_index - length,
                                                overflow_checks)

\* impl Hash: the units handed to state.write_u16, in order.
RECURSIVE hash_loop(_)
hash_loop(it) ==
    LET r == StringIterator_next(it)
    IN  IF r.ret = None THEN <<>>
        ELSE IF r.ret = Panic THEN <<PanicUnit>>
        ELSE <<r.ret.v>> \o hash_loop(r.self)

hash(self) == hash_loop(into_iter(self))

\* Iterator::cmp on two StringIterators: both are advanced in step until
\* one ends or the units differ.
RECURSIVE Iterator_cmp(_, _)
Iterator_cmp(a, b) ==
    LET ra == StringIterator_next(a)
    IN  IF ra.ret = Panic THEN "Panic"
        ELSE LET rb == StringIterator_next(b)
             IN  IF rb.ret = Panic THEN "Panic"
                 ELSE IF ra.ret = None
                 THEN (IF rb.ret = None THEN "Equal" ELSE "Less")
                 ELSE IF rb.ret = None THEN "Greater"
                 ELSE IF ra.ret.v < rb.ret.v THEN "Less"
                 ELSE IF ra.ret.v > rb.ret.v THEN "Greater"
                 ELSE Iterator_cmp(ra.self, rb.self)

\* An ordering with a fault: the shorter rope is the smaller one.
cmp_len_first(self, other) ==
    IF len(self) < len(other) THEN "Less"
    ELSE IF len(self) > len(other) THEN "Greater"
    ELSE Iterator_cmp(into_iter(self), into_iter(other))

\* impl Ord: self.iter().cmp(other.iter())
cmp(self, other) == Iterator_cmp(into_iter(self), into_iter(other))

\* flatten with a fault: every rope is narrowed to 8-bit units, whatever
\* has_one_byte_char says.  FlattenIdentity tells it from flatten.
flatten_always_narrow(self) ==
    IF self.t \in LeafVariants THEN self
    ELSE LET n == len(self)
             bytes == iter(self)
         IN  CASE n = 0 -> empty
               [] n = 1 /\ bytes = <<>> -> Panic
               [] n = 1 /\ bytes # <<>> -> SingleOneByteChar(as_u8(bytes[1]))
               [] OTHER ->
                    SeqOneByteString([k \in 1..Len(bytes) |-> as_u8(bytes[k])])

\* DynamicString::flatten
flatten(self) ==
    IF self.t \in LeafVariants THEN self
    ELSE LET n == len(self)
             narrow == has_one_byte_char(self)
             bytes == iter(self)
         IN  CASE n = 0 -> empty
               [] n = 1 /\ bytes = <<>> -> Panic
               [] n = 1 /\ bytes # <<>> /\ narrow -> SingleOneByteChar(as_u8(bytes[1]))
               [] n = 1 /\ bytes # <<>> /\ ~narrow -> SingleTwoByteChar(bytes[1])
               [] n > 1 /\ narrow ->
                    SeqOneByteString([k \in 1..Len(bytes) |-> as_u8(bytes[k])])
               [] OTHER -> SeqTwoByteString(bytes)

\* PartialEq<DynamicString> for DynamicString; Iterator::eq compares the two
\* collected sequences element by element and by length.
eq(self, other) ==
    CASE self.t = "Empty" /\ other.t = "Empty" -> TRUE
      [] self.t = "Empty" /\ other.t # "Empty" -> FALSE
      [] self.t = "SingleOneByteChar" /\ other.t = "SingleOneByteChar" ->
            self.c = other.c
      [] self.t = "SingleTwoByteChar" /\ other.t = "SingleTwoByteChar" ->
            self.c = other.c
      [] self.t = "SeqOneByteString" /\ other.t = "SeqOneByteString" ->
            self.v = other.v
      [] self.t = "SeqTwoByteString" /\ other.t = "SeqTwoByteString" ->
            self.v = other.v
      [] OTHER -> len(self) = len(other) /\ iter(self) = iter(other)

(***************************************************************************)
(* methods.rs                                                              *)
(***************************************************************************)
\* slice with a fault: the length is not clamped to the rest of the rope.
\* SliceIsWindow tells it from slice.
slice_unclamped(self, start, length) ==
    IF length = 0 THEN empty
    ELSE LET n == len(self)
         IN  IF start >= n THEN empty
             ELSE LET ret == SlicedString(self, start, length)
                  IN  IF length < MIN_SLICE_LENGTH THEN flatten(ret) ELSE ret

\* slice with a fault: the length asked for, not the clamped one, decides
\* whether the result is flattened.  MinSliceInvariant tells it from slice.
slice_tests_requested_length(self, start, length) ==
    IF length = 0 THEN empty
    ELSE LET n == len(self)
         IN  IF start >= n THEN empty
             ELSE LET clamped == Min(n - start, length)
                      ret == SlicedString(self, start, clamped)
                  IN  IF length < MIN_SLICE_LENGTH THEN flatten(ret) ELSE ret

\* DynamicString::slice
slice(self, start, length) ==
    IF length = 0 THEN empty
    ELSE LET n == len(self)
         IN  IF start >= n THEN empty
             ELSE LET clamped == Min(n - start, length)
                      ret == SlicedString(self, start, clamped)
                  IN  IF clamped < MIN_SLICE_LENGTH THEN flatten(ret) ELSE ret

\* append with a fault: the two children of the ConsString are exchanged.
\* AppendConcatenates tells it from append.
append_swapped(self, other) ==
    IF self.t = "Empty" \/ other.t = "Empty" THEN empty
    ELSE LET ret == ConsString(other, self)
         IN  IF len(ret) < MIN_SLICE_LENGTH THEN flatten(ret) ELSE ret

\* DynamicString::append
append(self, other) ==
    IF self.t = "Empty" \/ other.t = "Empty" THEN empty
    ELSE LET ret == ConsString(self, other)
         IN  IF len(ret) < MIN_SLICE_LENGTH THEN flatten(ret) ELSE ret

(***************************************************************************)
(* indexed.rs: struct IndexedString, enum Chunk                            *)
(***************************************************************************)
Chunk_Char(c) == [t |-> "Char", c |-> c]
Chunk_SeqOneByteString(vec, start) ==
    [t |-> "SeqOneByteString", vec |-> vec, start |-> start]
Chunk_SeqTwoByteString(vec, start) ==
    [t |-> "SeqTwoByteString", vec |-> vec, start |-> start]

\* get_len without the clamp to the end of the window.
get_len_whole_vector(end, n) == n

\* The closure get_len of IndexedString::new.
get_len(end, n) == IF end = None THEN n ELSE Min(end.v, n)

\* The loop of IndexedString::new, one iteration per unfolding.  st holds
\* the locals chunks, index, to_visit, end, current and slice_start.
RECURSIVE IndexedString_new_loop(_)
IndexedString_new_loop(st) ==
    LET active == st.current
        \* the match on to_visit.pop() that follows a leaf arm
        popped(s) ==
            IF s.to_visit = <<>>
            THEN [chunks |-> s.chunks, length |-> s.index]
            ELSE LET top == s.to_visit[Len(s.to_visit)]
                 IN  IndexedString_new_loop(
                        [s EXCEPT !.current = top.chunk,
                                  !.end = top.end,
                                  !.slice_start = 0,
                                  !.to_visit = SubSeq(@, 1, Len(@) - 1)])
    IN  CASE active.t = "Empty" -> popped(st)
          [] active.t \in {"SingleOneByteChar", "SingleTwoByteChar"} ->
                popped([st EXCEPT !.chunks = Append(@, <<st.index, Chunk_Char(active.c)>>),
                                  !.index = @ + 1])
          [] active.t = "SeqOneByteString" ->
                LET n == get_len(st.end, Len(active.v)) - st.slice_start
                IN  popped([st EXCEPT
                        !.chunks = Append(@, <<st.index,
                                     Chunk_SeqOneByteString(active.v, st.slice_start)>>),
                        !.index = @ + n])
          [] active.t = "SeqTwoByteString" ->
                LET n == get_len(st.end, Len(active.v)) - st.slice_start
                IN  popped([st EXCEPT
                        !.chunks = Append(@, <<st.index,
                                     Chunk_SeqTwoByteString(active.v, st.slice_start)>>),
                        !.index = @ + n])
          [] active.t = "SlicedString" ->
                LET ss == st.slice_start + active.start
                IN  IndexedString_new_loop(
                        [st EXCEPT
                            !.current = active.root,
                            !.slice_start = ss,
                            !.end = IF st.end = None
                                    THEN Some(ss + active.length)
                                    ELSE Some(Min(active.start + st.end.v,
                                                  active.start + active.length))])
          [] active.t = "ConsString" ->
                IF st.end = None
                THEN IndexedString_new_loop(
                        [st EXCEPT !.current = active.first,
                                   !.to_visit = Append(@, [chunk |-> active.second,
                                                           end |-> None])])
                ELSE LET n == st.end.v
                         first_len == len(active.first)
                     IN  IF first_len <= st.slice_start
                         THEN IndexedString_new_loop(
                                [st EXCEPT !.slice_start = @ - first_len,
                                           !.end = Some(n - first_len),
                                           !.current = active.second])
                         ELSE IndexedString_new_loop(
                                [st EXCEPT
                                    !.current = active.first,
                                    !.to_visit =
                                        IF n > first_len
                                        THEN Append(@, [chunk |-> active.second,
                                                        end |-> Some(n - first_len)])
                                        ELSE @])

\* IndexedString::new
IndexedString_new(string) ==
    IndexedString_new_loop(
        [chunks |-> <<>>, index |-> 0, to_visit |-> <<>>, end |-> None,
         current |-> string, slice_start |-> 0])

\* IndexedString::len
IndexedString_len(self) == self.length

\* Chunk::get with a fault: the start offset of the chunk is left out.
\* IndexedMatchesIter tells it from Chunk::get.
Chunk_get_without_start(self, index) ==
    CASE self.t = "Char" -> IF index = 0 THEN Some(self.c) ELSE Panic
      [] OTHER ->
            IF index < Len(self.vec) THEN Some(self.vec[index + 1]) ELSE Panic

\* Chunk::get
Chunk_get(self, index) ==
    CASE self.t = "Char" -> IF index = 0 THEN Some(self.c) ELSE Panic
      [] OTHER ->
            IF self.start + index < Len(self.vec)
            THEN Some(self.vec[self.start + index + 1])
            ELSE Panic

\* search: the positions slice::binary_search_by_key may return, turned
\* into a chunk position (Ok(n) => n, Err(n) => n - 1).  When several
\* offsets equal the index any of them may be returned.
search(chunks, index) ==
    LET hits == {n \in 1..Len(chunks) : chunks[n][1] = index}
        below == Cardinality({n \in 1..Len(chunks) : chunks[n][1] < index})
    IN  IF hits # {} THEN {n - 1 : n \in hits} ELSE {below - 1}

\* at with a fault: the test of the index against the length is missing.
IndexedString_at_unchecked(self, index) ==
    IF Len(self.chunks) = 0 THEN {Panic}
    ELSE IF Len(self.chunks) = 1
         THEN {Chunk_get(self.chunks[1][2], index)}
         ELSE {IF n < 0 THEN Panic
               ELSE Chunk_get(self.chunks[n + 1][2], index - self.chunks[n + 1][1]) :
               n \in search(self.chunks, index)}

\* IndexedString::at: the outcomes the call can have, Some(unit) or Panic.
IndexedString_at(self, index) ==
    IF index >= self.length THEN {Panic}
    ELSE IF Len(self.chunks) = 1
         THEN {Chunk_get(self.chunks[1][2], index)}
         ELSE {IF n < 0 THEN Panic
               ELSE Chunk_get(self.chunks[n + 1][2], index - self.chunks[n + 1][1]) :
               n \in search(self.chunks, index)}

(***************************************************************************)
(* pattern.rs: PatternFinder, PatternFinderInner, KMPPatternFinder         *)
(***************************************************************************)
\* self.at(index) where the offsets of the chunks differ, so that the
\* binary search has one answer.
at(self, index) == CHOOSE o \in IndexedString_at(self, index) : TRUE

\* The loop of compute_lps_array, one iteration per unfolding; n is the
\* local `len`.
RECURSIVE compute_lps_loop(_, _, _, _)
compute_lps_loop(pattern, lps, n, i) ==
    IF i < IndexedString_len(pattern)
    THEN IF at(pattern, i) = at(pattern, n)
         THEN compute_lps_loop(pattern, [lps EXCEPT ![i + 1] = n + 1], n + 1, i + 1)
         ELSE IF n # 0
              THEN compute_lps_loop(pattern, lps, lps[n], i)
              ELSE compute_lps_loop(pattern, [lps EXCEPT ![i + 1] = 0], n, i + 1)
    ELSE lps

\* compute_lps_array; lps[k] of the code is lps[k + 1] here.
compute_lps_array(pattern) ==
    compute_lps_loop(pattern, [k \in 1..IndexedString_len(pattern) |-> 0], 0, 1)

PatternFinderInner_Zero(done) == [kind |-> "Zero", done |-> done]
PatternFinderInner_Any(index, end) == [kind |-> "Any", index |-> index, end |-> end]

\* KMPPatternFinder::new
KMPPatternFinder_new(text, pattern) ==
    [kind |-> "KMP",
     text |-> IndexedString_new(text),
     pattern |-> IndexedString_new(pattern),
     lps_array |-> None,
     done |-> FALSE,
     text_index |-> 0,
     pattern_index |-> 0]

\* PatternFinder::new
PatternFinder_new(text, pattern) ==
    LET txt_len == len(text)
        ptn_len == len(pattern)
    IN  CASE txt_len = 0 /\ ptn_len = 0 -> PatternFinderInner_Zero(FALSE)
          [] txt_len # 0 /\ ptn_len = 0 -> PatternFinderInner_Any(0, txt_len)
          [] txt_len = 0 /\ ptn_len # 0 -> PatternFinderInner_Zero(FALSE)
          [] txt_len # 0 /\ ptn_len # 0 /\ ptn_len > txt_len ->
                PatternFinderInner_Zero(TRUE)
          [] txt_len # 0 /\ ptn_len # 0 /\ ptn_len = txt_len ->
                PatternFinderInner_Zero(~eq(text, pattern))
          [] OTHER -> KMPPatternFinder_new(text, pattern)

\* The while loop of KMPPatternFinder::next, one iteration per unfolding.
RECURSIVE KMP_loop(_, _, _, _)
KMP_loop(self, lps, i, j) ==
    LET text == self.text
        pattern == self.pattern
        n == IndexedString_len(text)
        ptn_len == IndexedString_len(pattern)
    IN  IF i < n
        THEN IF at(pattern, j) = Panic \/ at(text, i) = Panic
             THEN [self |-> self, ret |-> Panic]
             ELSE LET hit == at(pattern, j) = at(text, i)
                      j1 == IF hit THEN j + 1 ELSE j
                      i1 == IF hit THEN i + 1 ELSE i
                  IN  IF j1 = ptn_len
                      THEN [self |-> [self EXCEPT !.text_index = i1,
                                                  !.pattern_index = lps[j1]],
                            ret |-> Some(i1 - j1)]
                      ELSE IF i1 < n /\ at(pattern, j1) # at(text, i1)
                           THEN IF j1 # 0
                                THEN KMP_loop(self, lps, i1, lps[j1])
                                ELSE KMP_loop(self, lps, i1 + 1, j1)
                           ELSE KMP_loop(self, lps, i1, j1)
        ELSE [self |-> [self EXCEPT !.done = TRUE], ret |-> None]

\* KMPPatternFinder::next with a fault: the search resumes with the pattern
\* cursor at 0 instead of the saved pattern_index.  FinderYieldsOccurrences
\* tells it from next.
KMPPatternFinder_next_from_zero(self) ==
    IF self.done THEN [self |-> self, ret |-> None]
    ELSE LET lps == IF self.lps_array = None
                    THEN compute_lps_array(self.pattern)
                    ELSE self.lps_array.v
         IN  KMP_loop([self EXCEPT !.lps_array = Some(lps)], lps,
                      self.text_index, 0)

\* Iterator::next for KMPPatternFinder
KMPPatternFinder_next(self) ==
    IF self.done THEN [self |-> self, ret |-> None]
    ELSE LET lps == IF self.lps_array = None
                    THEN compute_lps_array(self.pattern)
                    ELSE self.lps_array.v
         IN  KMP_loop([self EXCEPT !.lps_array = Some(lps)], lps,
                      self.text_index, self.pattern_index)

\* Iterator::next for PatternFinderInner with a fault: the Any arm starts
\* over from 0 when it reaches the end.  FinderForwardOnly tells it from
\* next.
PatternFinder_next_any_restarts(self) ==
    CASE self.kind = "Zero" ->
            IF self.done THEN [self |-> self, ret |-> None]
            ELSE [self |-> [self EXCEPT !.done = TRUE], ret |-> Some(0)]
      [] self.kind = "Any" ->
            IF self.index = self.end
            THEN [self |-> [self EXCEPT !.index = 0], ret |-> None]
            ELSE [self |-> [self EXCEPT !.index = @ + 1], ret |-> Some(self.index)]
      [] self.kind = "KMP" -> KMPPatternFinder_next(self)

\* Iterator::next for PatternFinderInner with a fault: the Any arm also
\* yields the end of the text.  FinderEmptyPattern tells it from next.
PatternFinder_next_any_inclusive(self) ==

    CASE self.kind = "Zero" ->
            IF self.done THEN [self |-> self, ret |-> None]
            ELSE [self |-> [self EXCEPT !.done = TRUE], ret |-> Some(0)]
      [] self.kind = "Any" ->
            IF self.index > self.end THEN [self |-> self, ret |-> None]
            ELSE [self |-> [self EXCEPT !.index = @ + 1], ret |-> Some(self.index)]
      [] self.kind = "KMP" -> KMPPatternFinder_next(self)

\* Iterator::next for PatternFinderInner (and PatternFinder)
PatternFinder_next(self) ==
    CASE self.kind = "Zero" ->
            IF self.done THEN [self |-> self, ret |-> None]
            ELSE [self |-> [self EXCEPT !.done = TRUE], ret |-> Some(0)]
      [] self.kind = "Any" ->
            IF self.index = self.end THEN [self |-> self, ret |-> None]
            ELSE [self |-> [self EXCEPT !.index = @ + 1], ret |-> Some(self.index)]
      [] self.kind = "KMP" -> KMPPatternFinder_next(self)

\* self.index_of(pattern)
index_of(self, pattern) ==
    PatternFinder_next(PatternFinder_new(self, pattern)).ret

(***************************************************************************)
(* The rope machine.  A caller holds two ropes, x and y, and applies the   *)
(* operations of the crate to them; the result of an operation replaces x. *)
(* `last` records the last operation: its name, its operands (a the        *)
(* receiver, b the argument), its numeric arguments and what it returned.  *)
(***************************************************************************)
VARIABLES x, y, nops, last, eqres, indexed

ropeVars == <<x, y, nops, last, eqres, indexed>>

(***************************************************************************)
(* The search machine.  A caller holds a text and a pattern (for split,    *)
(* the separator), the PatternFinder made of them, and `found`, what the   *)
(* calls of next() on that finder have returned so far.  `sp` holds the    *)
(* locals of a call of split.                                              *)
(***************************************************************************)
VARIABLES text, pattern, finder, found, sp, kmp

findVars == <<text, pattern, finder, found, sp, kmp>>

\* What the caller has asked of the ropes built: cmpres is the outcome of
\* ordering and hashing x and y.
\* ordering and hashing x and y; iterator is an iterator the caller
\* holds over a rope, with the last call made on it; atres is the last
\* call of at on the indexed form held in `indexed`.
VARIABLES cmpres, iterator, atres

queryVars == <<cmpres, iterator, atres>>

vars == <<ropeVars, queryVars, findVars>>

\* No finder has been made.
NoFinder == [kind |-> "none"]

\* split has not been called.
NoSplit ==
    [pc |-> "none", limit |-> None, overflow_checks |-> FALSE, sep_len |-> 0,
     result |-> <<>>, last_index |-> 0, index |-> None, prev_last |-> 0]

\* No call of next() is under way.  While one is, pc tells the loop that
\* is running ("lps" for compute_lps_array, "search" for the while loop of
\* KMPPatternFinder::next), i and j are its cursors (j is the local `len`
\* in compute_lps_array), lps the table, acc the reads of the last
\* iteration and self the finder the call started from.
NoLoop ==
    [pc |-> "idle", i |-> 0, j |-> 0, lps |-> <<>>, acc |-> {},
     self |-> NoFinder]

FindIdle ==
    /\ kmp = NoLoop
    /\ text = Empty
    /\ pattern = Empty
    /\ finder = NoFinder
    /\ found = <<>>
    /\ sp = NoSplit

\* The number of operations applied after construction.
MaxOps == 3

\* The calls of next() (of an iterator, of a finder) that return None: the
\* one that ends the traversal and those made after it.
MaxNone == 2

\* The number of construction steps of a rope built variant by variant.
MaxBuild == 3

\* Host strings handed to DynamicString::new, as Unicode scalar values:
\* "", "a", "b", U+00E9 (two UTF-8 bytes, one unit below 256), U+26D4 (three
\* UTF-8 bytes, one unit), U+1F634 (four UTF-8 bytes, a surrogate pair),
\* an eight-unit ASCII string and an eight-unit string with wide units.
HostStrings ==
    {<<>>, <<97>>, <<233>>, <<9940>>, <<128564>>,
     <<97, 98, 99, 100, 101, 102, 103, 104>>,
     <<112, 9940, 113, 128564, 114, 233, 115>>}

\* (start, length) arguments handed to slice.
SliceArgs ==
    {<<0, 0>>, <<0, 16>>, <<1, 16>>, <<2, 20>>, <<3, 5>>, <<7, 1>>,
     <<9, 40>>, <<40, 1>>}

NoOp == [op |-> "none", a |-> Empty, b |-> Empty, start |-> 0, length |-> 0,
         data |-> <<>>, out |-> Empty]

NoEq == [done |-> FALSE, a |-> Empty, b |-> Empty, ab |-> FALSE, ba |-> FALSE]

NoIndexed == [done |-> FALSE, src |-> Empty, val |-> [chunks |-> <<>>, length |-> 0]]

NoCmp == [done |-> FALSE, a |-> Empty, b |-> Empty, ord |-> "Equal",
          hash_a |-> <<>>, hash_b |-> <<>>]

\* No iterator is held.  k counts the units the calls before the last one
\* consumed or skipped, n is the argument of the last call (0 for next),
\* ret what it returned, nones the calls that returned None, skipped
\* whether nth has been called.
NoIter == [op |-> "none", src |-> Empty, self |-> into_iter(Empty),
           overflow_checks |-> FALSE, k |-> 0, n |-> 0, ret |-> None,
           nones |-> 0, skipped |-> FALSE]

NoAt == [done |-> FALSE, index |-> 0, out |-> {}]

\* Nothing has been asked yet.
QueryIdle ==
    /\ cmpres = NoCmp
    /\ iterator = NoIter
    /\ atres = NoAt

\* The rope machine is not in use.
RopeIdle ==
    /\ QueryIdle
    /\ x = Empty
    /\ y = Empty
    /\ nops = 0
    /\ last = NoOp
    /\ eqres = NoEq
    /\ indexed = NoIndexed

Init ==
    /\ QueryIdle
    /\ x \in {new(d) : d \in HostStrings}
    /\ y \in {new(d) : d \in HostStrings}
    /\ nops = 0
    /\ last = NoOp
    /\ eqres = NoEq
    /\ indexed = NoIndexed
    /\ FindIdle

\* let r = DynamicString::new(data);
New(data) ==
    /\ nops < MaxOps
    /\ x' = new(data)
    /\ y' = x
    /\ nops' = nops + 1
    /\ last' = [NoOp EXCEPT !.op = "new", !.data = data, !.out = new(data)]
    /\ UNCHANGED <<eqres, indexed>>
    /\ UNCHANGED queryVars
    /\ UNCHANGED findVars

\* let r = a.append(b); for the two ropes held, in either order.
DoAppend(a, b) ==
    /\ nops < MaxOps
    /\ x' = append(a, b)
    /\ nops' = nops + 1
    /\ last' = [NoOp EXCEPT !.op = "append", !.a = a, !.b = b, !.out = append(a, b)]
    /\ UNCHANGED <<y, eqres, indexed>>
    /\ UNCHANGED queryVars
    /\ UNCHANGED findVars

AppendXY == DoAppend(x, y)

AppendYX == DoAppend(y, x)

\* let r = x.slice(start, length);
Slice(start, length) ==
    /\ nops < MaxOps
    /\ x' = slice(x, start, length)
    /\ nops' = nops + 1
    /\ last' = [NoOp EXCEPT !.op = "slice", !.a = x, !.start = start,
                             !.length = length, !.out = slice(x, start, length)]
    /\ UNCHANGED <<y, eqres, indexed>>
    /\ UNCHANGED queryVars
    /\ UNCHANGED findVars

\* let r = x.flatten();
Flatten ==
    /\ nops < MaxOps
    /\ x' = flatten(x)
    /\ nops' = nops + 1
    /\ last' = [NoOp EXCEPT !.op = "flatten", !.a = x, !.out = flatten(x)]
    /\ UNCHANGED <<y, eqres, indexed>>
    /\ UNCHANGED queryVars
    /\ UNCHANGED findVars

Next ==
    \/ \E data \in HostStrings : New(data)
    \/ AppendXY
    \/ AppendYX
    \/ \E args \in SliceArgs : Slice(args[1], args[2])
    \/ Flatten

Spec == Init /\ [][Next]_vars

(***************************************************************************)
(* Ropes built variant by variant, as the tests of the crate build them:   *)
(* leaves come from DynamicString::new, SlicedString and ConsString nodes  *)
(* are written out.  A SlicedString window lies inside its root            *)
(* (start + length <= root.len()); its length may be zero.  The ropes so   *)
(* built are then compared and indexed.                                    *)
(***************************************************************************)
\* Host strings of the leaves: "", "a", "bcd", U+26D4 "a", and a
\* seventeen-unit ASCII string.
LeafStrings ==
    {<<>>, <<97>>, <<98, 99, 100>>, <<9940, 97>>,
     <<48, 49, 50, 51, 52, 53, 54, 55, 56, 57, 97, 98, 99, 100, 101, 102, 103>>}

\* (start, length) of the SlicedString nodes written out.
SliceWindows ==
    {<<0, 0>>, <<1, 0>>, <<0, 1>>, <<1, 1>>, <<1, 2>>, <<1, 3>>, <<2, 3>>,
     <<1, 16>>, <<2, 17>>}

InitCons ==
    /\ QueryIdle
    /\ x \in {new(d) : d \in LeafStrings}
    /\ y \in {new(d) : d \in LeafStrings}
    /\ nops = 0
    /\ last = NoOp
    /\ eqres = NoEq
    /\ indexed = NoIndexed
    /\ FindIdle

\* Nothing has been asked of the ropes yet.
Building == ~eqres.done /\ ~indexed.done /\ ~cmpres.done /\ last.op = "none"

\* DynamicString::SlicedString { root: Box::new(x), start, length }
MkSliced(start, length) ==
    /\ Building /\ nops < MaxBuild
    /\ start + length <= len(x)
    /\ x' = SlicedString(x, start, length)
    /\ nops' = nops + 1
    /\ UNCHANGED <<y, last, eqres, indexed>>
    /\ UNCHANGED queryVars
    /\ UNCHANGED findVars

\* DynamicString::ConsString { first: Box::new(a), second: Box::new(b) }
MkCons(a, b) ==
    /\ Building /\ nops < MaxBuild
    /\ x' = ConsString(a, b)
    /\ nops' = nops + 1
    /\ UNCHANGED <<y, last, eqres, indexed>>
    /\ UNCHANGED queryVars
    /\ UNCHANGED findVars

MkConsXY == MkCons(x, y)

MkConsYX == MkCons(y, x)

MkConsXX == MkCons(x, x)

\* let r = DynamicString::new(data); as a further leaf
Leaf(data) ==
    /\ Building /\ nops < MaxBuild
    /\ x' = new(data)
    /\ y' = x
    /\ nops' = nops + 1
    /\ UNCHANGED <<last, eqres, indexed>>
    /\ UNCHANGED queryVars
    /\ UNCHANGED findVars

\* x == y and y == x
Eq ==
    /\ Building
    /\ eqres' = [done |-> TRUE, a |-> x, b |-> y, ab |-> eq(x, y), ba |-> eq(y, x)]
    /\ UNCHANGED <<x, y, nops, last, indexed>>
    /\ UNCHANGED queryVars
    /\ UNCHANGED findVars

\* let indexed = IndexedString::new(x);
IndexedNew ==
    /\ Building
    /\ indexed' = [done |-> TRUE, src |-> x, val |-> IndexedString_new(x)]
    /\ UNCHANGED <<x, y, nops, last, eqres>>
    /\ UNCHANGED queryVars
    /\ UNCHANGED findVars

\* let f = x.flatten();
FlattenBuilt ==
    /\ Building
    /\ last' = [NoOp EXCEPT !.op = "flatten", !.a = x, !.out = flatten(x)]
    /\ UNCHANGED <<x, y, nops, eqres, indexed>>
    /\ UNCHANGED queryVars
    /\ UNCHANGED findVars

\* x.cmp(&y), and the hashes of x and y
Cmp ==
    /\ Building
    /\ cmpres' = [done |-> TRUE, a |-> x, b |-> y, ord |-> cmp(x, y),
                  hash_a |-> hash(x), hash_b |-> hash(y)]
    /\ UNCHANGED <<iterator, atres>>
    /\ UNCHANGED ropeVars
    /\ UNCHANGED findVars

NextCons ==
    \/ \E data \in LeafStrings : Leaf(data)
    \/ \E w \in SliceWindows : MkSliced(w[1], w[2])
    \/ MkConsXY
    \/ MkConsYX
    \/ MkConsXX
    \/ Eq
    \/ IndexedNew
    \/ FlattenBuilt
    \/ Cmp

SpecCons == InitCons /\ [][NextCons]_vars

(***************************************************************************)
(* Reading (SpecIter): a rope is written out variant by variant, with      *)
(* SlicedString and ConsString nodes nested up to three deep.  Either an   *)
(* iterator is taken over it and next() and nth(n) are called on it in any *)
(* order, or it is indexed and at(index) is called.                        *)
(***************************************************************************)
\* Host strings of the leaves: "a", "bcd" and U+26D4 "efg".
IterStrings == {<<97>>, <<98, 99, 100>>, <<9940, 101, 102, 103>>}

IterLeaves == {new(d) : d \in IterStrings} \cup {Empty}

\* (start, length) of the SlicedString nodes.
IterWindows ==
    {<<0, 0>>, <<0, 1>>, <<1, 1>>, <<0, 2>>, <<1, 2>>, <<2, 2>>, <<1, 3>>, <<3, 3>>,
     <<0, 4>>}

\* The SlicedString nodes over the ropes of S whose window lies in the
\* root, and the ConsString nodes with children from S and T.
Slices(S) ==
    {SlicedString(p[1], p[2][1], p[2][2]) :
        p \in {q \in S \X IterWindows : q[2][1] + q[2][2] <= len(q[1])}}

Conses(S, T) == {ConsString(p[1], p[2]) : p \in S \X T}

IterRopesOne ==
    IterLeaves \cup Slices(IterLeaves) \cup Conses(IterLeaves, IterLeaves)

IterRopesTwo ==
    IterRopesOne \cup Slices(IterRopesOne)
        \cup Conses(IterRopesOne, IterLeaves) \cup Conses(IterLeaves, IterRopesOne)

IterRopes == IterRopesTwo \cup Slices(IterRopesTwo)

\* The arguments handed to nth.
NthArgs == {0, 1, 2, 4}

InitIter ==
    /\ x = Empty
    /\ y = Empty
    /\ nops = 0
    /\ last = NoOp
    /\ eqres = NoEq
    /\ indexed = NoIndexed
    /\ cmpres = NoCmp
    /\ atres = NoAt
    /\ FindIdle
    /\ \E r \in IterRopes, checks \in BOOLEAN :
          iterator = [NoIter EXCEPT !.op = "iter", !.src = r,
                                    !.self = into_iter(r),
                                    !.overflow_checks = checks]

\* The position of the iterator as the calls made so far leave it.
Consumed == IF iterator.op = "iter" THEN 0 ELSE iterator.k + iterator.n + 1

\* let c = iterator.next();
IterNext ==
    /\ iterator.op # "none" /\ iterator.nones < MaxNone
    /\ ~indexed.done
    /\ iterator.ret # Panic
    /\ LET r == StringIterator_next(iterator.self)
       IN  iterator' = [iterator EXCEPT
                          !.op = "next", !.self = r.self, !.k = Consumed,
                          !.n = 0, !.ret = r.ret,
                          !.nones = IF r.ret = None THEN @ + 1 ELSE @]
    /\ UNCHANGED <<cmpres, atres>>
    /\ UNCHANGED ropeVars
    /\ UNCHANGED findVars

\* let c = iterator.nth(n);
IterNth(n) ==
    /\ iterator.op # "none" /\ iterator.nones < MaxNone
    /\ ~indexed.done
    /\ iterator.ret # Panic
    /\ LET r == StringIterator_nth(iterator.self, n, iterator.overflow_checks)
       IN  iterator' = [iterator EXCEPT
                          !.op = "nth", !.self = r.self, !.k = Consumed,
                          !.n = n, !.ret = r.ret, !.skipped = TRUE,
                          !.nones = IF r.ret = None THEN @ + 1 ELSE @]
    /\ UNCHANGED <<cmpres, atres>>
    /\ UNCHANGED ropeVars
    /\ UNCHANGED findVars

\* The indices handed to at.
AtIndices == {0, 1, 2, 3, 5, 9}

\* let indexed = IndexedString::new(rope); instead of iterating
IterIndexed ==
    /\ iterator.op = "iter"
    /\ ~indexed.done
    /\ indexed' = [done |-> TRUE, src |-> iterator.src,
                   val |-> IndexedString_new(iterator.src)]
    /\ UNCHANGED <<x, y, nops, last, eqres>>
    /\ UNCHANGED queryVars
    /\ UNCHANGED findVars

\* indexed.at(index)
At(index) ==
    /\ indexed.done
    /\ ~atres.done
    /\ atres' = [done |-> TRUE, index |-> index,
                 out |-> IndexedString_at(indexed.val, index)]
    /\ UNCHANGED <<cmpres, iterator>>
    /\ UNCHANGED ropeVars
    /\ UNCHANGED findVars

NextIter ==
    \/ IterNext
    \/ \E n \in NthArgs : IterNth(n)
    \/ IterIndexed
    \/ \E index \in AtIndices : At(index)

SpecIter == InitIter /\ [][NextIter]_vars

(***************************************************************************)
(* Searching: a text and a pattern are chosen, the finder is made, and     *)
(* next() is called on it again and again (SpecFind).                      *)
(***************************************************************************)
\* The code units of the texts and patterns: 'a' and 'b'.
Alphabet == {97, 98}

\* The longest text and the longest pattern.
MaxTextLen == 5

MaxPatLen == 3

StringsUpTo(n) == UNION {[1..k -> Alphabet] : k \in 0..n}

\* The texts: each string as DynamicString::new makes it and, from two
\* units on, as a ConsString of its two halves.
TextRopes ==
    {new(d) : d \in StringsUpTo(MaxTextLen)} \cup
    {ConsString(new(SubSeq(d, 1, Len(d) \div 2)),
                new(SubSeq(d, Len(d) \div 2 + 1, Len(d)))) :
        d \in {e \in StringsUpTo(MaxTextLen) : Len(e) >= 2}}

PatternRopes == {new(d) : d \in StringsUpTo(MaxPatLen)}

NoneCount == Cardinality({k \in 1..Len(found) : found[k] = None})

InitFind ==
    /\ RopeIdle
    /\ text \in TextRopes
    /\ pattern \in PatternRopes
    /\ finder = PatternFinder_new(text, pattern)
    /\ found = <<>>
    /\ sp = NoSplit
    /\ kmp = NoLoop

\* finder.next()
CallNext ==
    /\ NoneCount < MaxNone
    /\ finder' = PatternFinder_next(finder).self
    /\ found' = Append(found, PatternFinder_next(finder).ret)
    /\ UNCHANGED <<text, pattern, sp, kmp>>
    /\ UNCHANGED ropeVars
    /\ UNCHANGED queryVars

\* The three arms of PatternFinderInner::next.
NextZero == finder.kind = "Zero" /\ CallNext

NextAny == finder.kind = "Any" /\ CallNext

NextKMP == finder.kind = "KMP" /\ CallNext

NextFind == NextZero \/ NextAny \/ NextKMP

SpecFind == InitFind /\ [][NextFind]_vars

(***************************************************************************)
(* The loops of the KMP finder, one iteration per step (SpecLoop).  A call *)
(* of next() on a KMP finder enters compute_lps_array when the table has   *)
(* not been built, then the while loop of KMPPatternFinder::next, and      *)
(* leaves it by a return.                                                  *)
(***************************************************************************)
\* A read of pattern.at(idx), text.at(idx) or lps[idx].
Read(tab, idx) == [tab |-> tab, idx |-> idx]

\* One iteration of the loop of compute_lps_array, entered with i < ptn_len;
\* n is the local `len`.
lps_step(ptn, lps, n, i) ==
    LET reads == {Read("pattern", i), Read("pattern", n)}
    IN  IF at(ptn, i) = Panic \/ at(ptn, n) = Panic
        THEN [panic |-> TRUE, lps |-> lps, j |-> n, i |-> i, acc |-> reads]
        ELSE IF at(ptn, i) = at(ptn, n)
        THEN [panic |-> FALSE, lps |-> [lps EXCEPT ![i + 1] = n + 1],
              j |-> n + 1, i |-> i + 1, acc |-> reads]
        ELSE IF n # 0
        THEN IF n > Len(lps)
             THEN [panic |-> TRUE, lps |-> lps, j |-> n, i |-> i,
                   acc |-> reads \cup {Read("lps", n - 1)}]
             ELSE [panic |-> FALSE, lps |-> lps, j |-> lps[n], i |-> i,
                   acc |-> reads \cup {Read("lps", n - 1)}]
        ELSE [panic |-> FALSE, lps |-> [lps EXCEPT ![i + 1] = 0],
              j |-> n, i |-> i + 1, acc |-> reads]

\* kmp_step with a fault: after a mismatch with j # 0 the pattern cursor
\* stays where it is.  FinderFinishes tells it from kmp_step.
kmp_step_keeps_j(self, lps, i, j) ==
    LET ptn_len == IndexedString_len(self.pattern)
        n == IndexedString_len(self.text)
        first == {Read("pattern", j), Read("text", i)}
        out(panic, returns, i2, j2, ret, acc, s) ==
            [panic |-> panic, returns |-> returns, i |-> i2, j |-> j2,
             ret |-> ret, acc |-> acc, self |-> s]
    IN  IF at(self.pattern, j) = Panic \/ at(self.text, i) = Panic
        THEN out(TRUE, FALSE, i, j, None, first, self)
        ELSE
        LET hit == at(self.pattern, j) = at(self.text, i)
            j1 == IF hit THEN j + 1 ELSE j
            i1 == IF hit THEN i + 1 ELSE i
            second == first \cup {Read("pattern", j1), Read("text", i1)}
        IN  IF j1 = ptn_len
            THEN IF j1 < 1 \/ j1 > Len(lps)
                 THEN out(TRUE, FALSE, i1, j1, None,
                          first \cup {Read("lps", j1 - 1)}, self)
                 ELSE out(FALSE, TRUE, i1, j1, Some(i1 - j1),
                          first \cup {Read("lps", j1 - 1)},
                          [self EXCEPT !.text_index = i1,
                                       !.pattern_index = lps[j1]])
            ELSE IF i1 < n
            THEN IF at(self.pattern, j1) = Panic \/ at(self.text, i1) = Panic
                 THEN out(TRUE, FALSE, i1, j1, None, second, self)
                 ELSE IF at(self.pattern, j1) # at(self.text, i1)
                 THEN IF j1 # 0
                      THEN out(FALSE, FALSE, i1, j1, None,
                               second \cup {Read("lps", j1 - 1)}, self)
                      ELSE out(FALSE, FALSE, i1 + 1, j1, None, second, self)
                 ELSE out(FALSE, FALSE, i1, j1, None, second, self)
            ELSE out(FALSE, FALSE, i1, j1, None, first, self)

\* One iteration of the while loop of KMPPatternFinder::next, entered with
\* i < len.  returns tells whether the iteration left by `return Some(..)`.
kmp_step(self, lps, i, j) ==
    LET ptn_len == IndexedString_len(self.pattern)
        n == IndexedString_len(self.text)
        first == {Read("pattern", j), Read("text", i)}
        out(panic, returns, i2, j2, ret, acc, s) ==
            [panic |-> panic, returns |-> returns, i |-> i2, j |-> j2,
             ret |-> ret, acc |-> acc, self |-> s]
    IN  IF at(self.pattern, j) = Panic \/ at(self.text, i) = Panic
        THEN out(TRUE, FALSE, i, j, None, first, self)
        ELSE
        LET hit == at(self.pattern, j) = at(self.text, i)
            j1 == IF hit THEN j + 1 ELSE j
            i1 == IF hit THEN i + 1 ELSE i
            second == first \cup {Read("pattern", j1), Read("text", i1)}
        IN  IF j1 = ptn_len
            THEN IF j1 < 1 \/ j1 > Len(lps)
                 THEN out(TRUE, FALSE, i1, j1, None,
                          first \cup {Read("lps", j1 - 1)}, self)
                 ELSE out(FALSE, TRUE, i1, j1, Some(i1 - j1),
                          first \cup {Read("lps", j1 - 1)},
                          [self EXCEPT !.text_index = i1,
                                       !.pattern_index = lps[j1]])
            ELSE IF i1 < n
            THEN IF at(self.pattern, j1) = Panic \/ at(self.text, i1) = Panic
                 THEN out(TRUE, FALSE, i1, j1, None, second, self)
                 ELSE IF at(self.pattern, j1) # at(self.text, i1)
                 THEN IF j1 # 0
                      THEN IF j1 > Len(lps)
                           THEN out(TRUE, FALSE, i1, j1, None,
                                    second \cup {Read("lps", j1 - 1)}, self)
                           ELSE out(FALSE, FALSE, i1, lps[j1], None,
                                    second \cup {Read("lps", j1 - 1)}, self)
                      ELSE out(FALSE, FALSE, i1 + 1, j1, None, second, self)
                 ELSE out(FALSE, FALSE, i1, j1, None, second, self)
            ELSE out(FALSE, FALSE, i1, j1, None, first, self)

\* The texts searched loop by loop: the texts of two chunks, and the
\* leaves for the texts too short to have two.
LoopTexts == {r \in TextRopes : r.t = "ConsString" \/ len(r) < 2}

InitLoop ==
    /\ RopeIdle
    /\ text \in LoopTexts
    /\ pattern \in PatternRopes
    /\ finder = PatternFinder_new(text, pattern)
    /\ found = <<>>
    /\ sp = NoSplit
    /\ kmp = NoLoop

\* finder.next() is called on a KMP finder and no call is under way.
KMPCalled ==
    /\ finder.kind = "KMP"
    /\ kmp.pc = "idle"
    /\ NoneCount < MaxNone

\* if self.done { return None; }
KMPReturnDone ==
    /\ KMPCalled
    /\ finder.done
    /\ found' = Append(found, None)
    /\ kmp' = [NoLoop EXCEPT !.self = finder]
    /\ UNCHANGED <<text, pattern, finder, sp>>
    /\ UNCHANGED ropeVars
    /\ UNCHANGED queryVars

\* get_or_insert_with on an empty lps_array: compute_lps_array is entered.
LpsEnter ==
    /\ KMPCalled
    /\ ~finder.done
    /\ finder.lps_array = None
    /\ kmp' = [pc |-> "lps", i |-> 1, j |-> 0,
               lps |-> [k \in 1..IndexedString_len(finder.pattern) |-> 0],
               acc |-> {}, self |-> finder]
    /\ UNCHANGED <<text, pattern, finder, found, sp>>
    /\ UNCHANGED ropeVars
    /\ UNCHANGED queryVars

\* One iteration of the loop of compute_lps_array.
LpsIterate ==
    /\ kmp.pc = "lps"
    /\ kmp.i < IndexedString_len(finder.pattern)
    /\ LET r == lps_step(finder.pattern, kmp.lps, kmp.j, kmp.i)
       IN  kmp' = [kmp EXCEPT !.pc = IF r.panic THEN "panic" ELSE "lps",
                              !.i = r.i, !.j = r.j, !.lps = r.lps,
                              !.acc = r.acc]
    /\ UNCHANGED <<text, pattern, finder, found, sp>>
    /\ UNCHANGED ropeVars
    /\ UNCHANGED queryVars

\* compute_lps_array returns; the table is stored and the while loop of
\* next is entered at the saved cursors.
LpsExit ==
    /\ kmp.pc = "lps"
    /\ kmp.i >= IndexedString_len(finder.pattern)
    /\ finder' = [finder EXCEPT !.lps_array = Some(kmp.lps)]
    /\ kmp' = [kmp EXCEPT !.pc = "search", !.i = finder.text_index,
                          !.j = finder.pattern_index, !.acc = {}]
    /\ UNCHANGED <<text, pattern, found, sp>>
    /\ UNCHANGED ropeVars
    /\ UNCHANGED queryVars

\* get_or_insert_with on a table built by an earlier call: the while loop
\* of next is entered at the saved cursors.
SearchEnter ==
    /\ KMPCalled
    /\ ~finder.done
    /\ finder.lps_array # None
    /\ kmp' = [pc |-> "search", i |-> finder.text_index,
               j |-> finder.pattern_index, lps |-> finder.lps_array.v,
               acc |-> {}, self |-> finder]
    /\ UNCHANGED <<text, pattern, finder, found, sp>>
    /\ UNCHANGED ropeVars
    /\ UNCHANGED queryVars

\* One iteration of the while loop of next, which may return an offset.
SearchIterate ==
    /\ kmp.pc = "search"
    /\ kmp.i < IndexedString_len(finder.text)
    /\ LET r == kmp_step(finder, kmp.lps, kmp.i, kmp.j)
       IN  IF r.returns
           THEN /\ finder' = r.self
                /\ found' = Append(found, r.ret)
                /\ kmp' = [NoLoop EXCEPT !.acc = r.acc, !.self = kmp.self]
           ELSE /\ kmp' = [kmp EXCEPT !.pc = IF r.panic THEN "panic" ELSE "search",
                                      !.i = r.i, !.j = r.j, !.acc = r.acc]
                /\ UNCHANGED <<finder, found>>
    /\ UNCHANGED <<text, pattern, sp>>
    /\ UNCHANGED ropeVars
    /\ UNCHANGED queryVars

\* The while loop ends: self.done = true; None
SearchExit ==
    /\ kmp.pc = "search"
    /\ kmp.i >= IndexedString_len(finder.text)
    /\ finder' = [finder EXCEPT !.done = TRUE]
    /\ found' = Append(found, None)
    /\ kmp' = [NoLoop EXCEPT !.self = kmp.self]
    /\ UNCHANGED <<text, pattern, sp>>
    /\ UNCHANGED ropeVars
    /\ UNCHANGED queryVars

NextLoop ==
    \/ NextZero
    \/ NextAny
    \/ KMPReturnDone
    \/ LpsEnter
    \/ LpsIterate
    \/ LpsExit
    \/ SearchEnter
    \/ SearchIterate
    \/ SearchExit

SpecLoop == InitLoop /\ [][NextLoop]_vars

\* The code of a call runs on until it returns, and the caller goes on
\* calling next() until it has seen None (as all and split do).
SpecLoopFair == SpecLoop /\ WF_vars(NextLoop)

(***************************************************************************)
(* split (SpecSplit): the call is followed statement by statement, one     *)
(* step per turn of `for index in patterns`.                               *)
(***************************************************************************)
\* The limits handed to split.
Limits == {None, Some(0), Some(1), Some(2)}

\* usize arithmetic wraps modulo 2^w in a build without overflow checks;
\* w is at least 16.  A wrapped difference is far above every length of
\* the model whatever w is, and slice clamps it to the rest of the text.
UsizeModulus == 2 ^ 16

wrapping_sub(a, b) == IF a >= b THEN a - b ELSE a - b + UsizeModulus

\* methods.rs 105: the match at 0 of an empty separator pushes no piece.
split_skips_never(sep_len, last_index, index) == FALSE

split_skips(sep_len, last_index, index) ==
    sep_len = 0 /\ last_index = 0 /\ index = 0

\* methods.rs 104-119 as a function: the loop over the matches and the
\* tail.  The outcome is the vector returned, or a panic.
RECURSIVE split_loop(_, _, _, _, _, _, _)
split_loop(self, sep_len, patterns, result, last_index, limit, checks) ==
    LET r == PatternFinder_next(patterns)
    IN  IF r.ret = Panic THEN [panic |-> TRUE, result |-> result]
        ELSE IF r.ret = None
        THEN [panic |-> FALSE,
              result |-> IF last_index < len(self)
                         THEN Append(result, slice(self, last_index,
                                                   len(self) - last_index))
                         ELSE result]
        ELSE LET index == r.ret.v
                 skip == split_skips(sep_len, last_index, index)
                 pushed == IF skip THEN result
                           ELSE Append(result,
                                       slice(self, last_index,
                                             wrapping_sub(index, last_index)))
             IN  IF ~skip /\ index < last_index /\ checks
                 THEN [panic |-> TRUE, result |-> result]
                 ELSE IF limit # None /\ limit.v = Len(pushed)
                 THEN [panic |-> FALSE, result |-> pushed]
                 ELSE split_loop(self, sep_len, r.self, pushed,
                                 index + sep_len, limit, checks)

\* self.split(separator, limit), in a build with or without overflow
\* checks.
split(self, separator, limit, checks) ==
    IF limit = Some(0) THEN [panic |-> FALSE, result |-> <<>>]
    ELSE split_loop(self, len(separator), PatternFinder_new(self, separator),
                    <<>>, 0, limit, checks)

InitSplit ==
    /\ RopeIdle
    /\ text \in TextRopes
    /\ pattern \in PatternRopes
    /\ finder = NoFinder
    /\ found = <<>>
    /\ kmp = NoLoop
    /\ \E limit \in Limits, checks \in BOOLEAN :
          sp = [NoSplit EXCEPT !.pc = "start", !.limit = limit,
                               !.overflow_checks = checks]

\* methods.rs 94-102: the early return on Some(0), then the locals.
SplitStart ==
    /\ sp.pc = "start"
    /\ IF sp.limit = Some(0)
       THEN /\ sp' = [sp EXCEPT !.pc = "done"]
            /\ UNCHANGED finder
       ELSE /\ sp' = [sp EXCEPT !.pc = "loop", !.sep_len = len(pattern),
                                 !.result = <<>>, !.last_index = 0]
            /\ finder' = PatternFinder_new(text, pattern)
    /\ UNCHANGED <<text, pattern, found, kmp>>
    /\ UNCHANGED ropeVars
    /\ UNCHANGED queryVars

\* methods.rs 104-113: one turn of the loop, the finder has a match.  The
\* subtraction index - last_index panics in a build with overflow checks
\* and wraps in one without when index < last_index.
SplitMatch ==
    /\ sp.pc = "loop"
    /\ PatternFinder_next(finder).ret \notin {None, Panic}
    /\ LET r == PatternFinder_next(finder)
           index == r.ret.v
           skip == split_skips(sp.sep_len, sp.last_index, index)
           pushed == IF skip THEN sp.result
                     ELSE Append(sp.result,
                                 slice(text, sp.last_index,
                                       wrapping_sub(index, sp.last_index)))
       IN  /\ finder' = r.self
           /\ found' = Append(found, r.ret)
           /\ IF ~skip /\ index < sp.last_index /\ sp.overflow_checks
              THEN sp' = [sp EXCEPT !.pc = "panic", !.index = Some(index),
                                    !.prev_last = sp.last_index]
              ELSE sp' = [sp EXCEPT
                            !.result = pushed,
                            !.last_index = index + sp.sep_len,
                            !.index = Some(index),
                            !.prev_last = sp.last_index,
                            !.pc = IF sp.limit # None /\ sp.limit.v = Len(pushed)
                                   THEN "done" ELSE "loop"]
    /\ UNCHANGED <<text, pattern, kmp>>
    /\ UNCHANGED ropeVars
    /\ UNCHANGED queryVars

\* methods.rs 115-119: the finder is exhausted; the tail and the return.
SplitTail ==
    /\ sp.pc = "loop"
    /\ PatternFinder_next(finder).ret = None
    /\ finder' = PatternFinder_next(finder).self
    /\ found' = Append(found, None)
    /\ sp' = [sp EXCEPT
                !.pc = "done",
                !.result = IF sp.last_index < len(text)
                           THEN Append(@, slice(text, sp.last_index,
                                                len(text) - sp.last_index))
                           ELSE @]
    /\ UNCHANGED <<text, pattern, kmp>>
    /\ UNCHANGED ropeVars
    /\ UNCHANGED queryVars

NextSplit == SplitStart \/ SplitMatch \/ SplitTail

SpecSplit == InitSplit /\ [][NextSplit]_vars

(***************************************************************************)
(* Predicates on ropes used by the properties.                             *)
(***************************************************************************)
\* Every SlicedString window is non-empty and lies inside its root.  The
\* ropes of the data model (Slice: start + length <= child.length and
\* length >= MIN_SLICE) are among these.
RECURSIVE ValidRope(_)
ValidRope(r) ==
    CASE r.t = "SlicedString" ->
            /\ r.length >= 1
            /\ r.start + r.length <= len(r.root)
            /\ ValidRope(r.root)
      [] r.t = "ConsString" -> ValidRope(r.first) /\ ValidRope(r.second)
      [] OTHER -> TRUE

\* Every SlicedString and ConsString node of the rope has len() >= 16.
RECURSIVE MinSliceHolds(_)
MinSliceHolds(r) ==
    CASE r.t = "SlicedString" ->
            len(r) >= MIN_SLICE_LENGTH /\ MinSliceHolds(r.root)
      [] r.t = "ConsString" ->
            /\ len(r) >= MIN_SLICE_LENGTH
            /\ MinSliceHolds(r.first)
            /\ MinSliceHolds(r.second)
      [] OTHER -> TRUE

\* The invariants of the data model: windows inside their roots, Slice
\* and Concat nodes of length >= MIN_SLICE, no Empty child of a Concat.
RECURSIVE DataModel(_)
DataModel(r) ==
    CASE r.t = "SlicedString" ->
            /\ r.length >= MIN_SLICE_LENGTH
            /\ r.start + r.length <= len(r.root)
            /\ DataModel(r.root)
      [] r.t = "ConsString" ->
            /\ len(r) >= MIN_SLICE_LENGTH
            /\ r.first.t # "Empty" /\ r.second.t # "Empty"
            /\ DataModel(r.first) /\ DataModel(r.second)
      [] OTHER -> TRUE

(***************************************************************************)
(* Properties of the rope machine (Spec)                                   *)
(***************************************************************************)
\* C2: for non-Empty ropes r and s, append(r, s) iterates to the code units
\* of r followed by those of s and has length len(r) + len(s); the result
\* is a ConsString when that length is at least 16 and a leaf when it is
\* below 16.
AppendConcatenates ==
    (last.op = "append" /\ last.a.t # "Empty" /\ last.b.t # "Empty") =>
        /\ iter(last.out) = iter(last.a) \o iter(last.b)
        /\ len(last.out) = len(last.a) + len(last.b)
        /\ IF len(last.a) + len(last.b) >= MIN_SLICE_LENGTH
           THEN last.out.t = "ConsString"
           ELSE last.out.t \in LeafVariants

\* An append of a sliced rope and a leaf that is kept as a ConsString.
AppendConcatenatesWitness ==
    /\ last.op = "append"
    /\ last.a.t = "SlicedString"
    /\ last.b.t # "Empty"
    /\ last.out.t = "ConsString"

\* C3: append with an Empty operand returns the other operand.
AppendEmptyReturnsOther ==
    last.op = "append" =>
        /\ (last.a.t = "Empty" => last.out = last.b)
        /\ (last.b.t = "Empty" => last.out = last.a)

\* C4: slice(r, start, length) is Empty when length = 0 or start >= len(r);
\* otherwise it iterates to the code units of r at the indices
\* start .. start + min(length, len(r) - start) - 1 and its len() is
\* min(length, len(r) - start).
SliceIsWindow ==
    last.op = "slice" =>
        LET n == len(last.a)
            m == Min(last.length, n - last.start)
        IN  IF last.length = 0 \/ last.start >= n
            THEN last.out = Empty
            ELSE /\ iter(last.out) =
                        SubSeq(iter(last.a), last.start + 1, last.start + m)
                 /\ len(last.out) = m

\* A slice of a ConsString that starts past its first unit, is clamped to
\* the end of the rope and is kept as a SlicedString.
SliceIsWindowWitness ==
    /\ last.op = "slice"
    /\ last.a.t = "ConsString"
    /\ last.start > 0
    /\ last.start + last.length > len(last.a)
    /\ last.out.t = "SlicedString"

\* C6: after any sequence of new, append, slice and flatten every
\* SlicedString and ConsString node of the ropes held has len() >= 16, and
\* every rope shorter than 16 code units is a leaf.
MinSliceInvariant ==
    /\ MinSliceHolds(x) /\ MinSliceHolds(y)
    /\ (len(x) < MIN_SLICE_LENGTH => x.t \in LeafVariants)
    /\ (len(y) < MIN_SLICE_LENGTH => y.t \in LeafVariants)

\* A slice of an appended rope has been kept and another, shorter than 16,
\* has been flattened.
MinSliceInvariantWitness ==
    /\ last.op = "slice"
    /\ last.a.t = "SlicedString"
    /\ last.a.root.t = "ConsString"
    /\ last.start + last.length <= len(last.a)
    /\ last.length < MIN_SLICE_LENGTH
    /\ x.t \in {"SeqOneByteString", "SeqTwoByteString"}

(***************************************************************************)
(* Properties of ropes built variant by variant (SpecCons)                 *)
(***************************************************************************)
\* C5: r == s holds exactly when r and s iterate to the same code units,
\* and r == s exactly when s == r.
EqIsValueEquality ==
    eqres.done =>
        /\ (eqres.ab <=> (iter(eqres.a) = iter(eqres.b)))
        /\ (eqres.ab <=> eqres.ba)

IndexedMatchesIter ==
    (indexed.done /\ ValidRope(indexed.src)) =>
        LET units == iter(indexed.src)
        IN  /\ IndexedString_len(indexed.val) = len(indexed.src)
            /\ \A i \in 0..(len(indexed.src) - 1) :
                  IndexedString_at(indexed.val, i) = {Some(units[i + 1])}

\* A rope of the data model, a slice of a concatenation whose window spans
\* both children, has been indexed into more than one chunk.
IndexedMatchesIterWitness ==
    /\ indexed.done
    /\ DataModel(indexed.src)
    /\ indexed.src.t = "SlicedString"
    /\ indexed.src.start > 0
    /\ indexed.src.root.t = "ConsString"
    /\ Len(indexed.val.chunks) >= 2

(***************************************************************************)
(* Properties of the pattern finder (SpecFind)                             *)
(***************************************************************************)
\* The offsets next() has returned so far, in the order returned.
RECURSIVE Offsets(_)
Offsets(rets) ==
    IF rets = <<>> THEN <<>>
    ELSE IF Head(rets) \in {None, Panic} THEN Offsets(Tail(rets))
    ELSE <<Head(rets).v>> \o Offsets(Tail(rets))

\* Whether the code units of t from position p on (counted from 0) start
\* with the code units of q.
OccursAt(t, q, p) ==
    /\ p + Len(q) <= Len(t)
    /\ \A k \in 1..Len(q) : t[p + k] = q[k]

\* The positions 0 <= p <= |t| - |q| where q occurs in t, in increasing
\* order.
RECURSIVE OccurrencesFrom(_, _, _)
OccurrencesFrom(t, q, p) ==
    IF p + Len(q) > Len(t) THEN <<>>
    ELSE (IF OccursAt(t, q, p) THEN <<p>> ELSE <<>>) \o OccurrencesFrom(t, q, p + 1)

IsPrefix(a, b) == Len(a) <= Len(b) /\ SubSeq(b, 1, Len(a)) = a

\* C1: for a non-empty text and a non-empty pattern the offsets the finder
\* yields are, in increasing order, exactly the positions where the
\* pattern occurs in the text: at every moment they are the first
\* occurrences, and all of them once next() has returned None; next()
\* never panics.
FinderYieldsOccurrences ==
    (finder.kind # "none" /\ sp.pc = "none" /\ len(text) > 0 /\ len(pattern) > 0) =>
        LET expected == OccurrencesFrom(iter(text), iter(pattern), 0)
        IN  /\ \A k \in 1..Len(found) : found[k] # Panic
            /\ IsPrefix(Offsets(found), expected)
            /\ (NoneCount > 0 => Offsets(found) = expected)

\* The KMP finder has been drained and has reported two occurrences that
\* overlap, in a text made of two chunks.
FinderYieldsOccurrencesWitness ==
    /\ finder.kind = "KMP"
    /\ sp.pc = "none"
    /\ text.t = "ConsString"
    /\ NoneCount > 0
    /\ Len(Offsets(found)) >= 2
    /\ Offsets(found)[2] - Offsets(found)[1] < len(pattern)

(***************************************************************************)
(* Properties of split (SpecSplit)                                         *)
(***************************************************************************)
\* The pieces joined with the separator between consecutive pieces.
RECURSIVE Join(_, _)
Join(pieces, sep) ==
    IF pieces = <<>> THEN <<>>
    ELSE IF Len(pieces) = 1 THEN iter(pieces[1])
    ELSE iter(pieces[1]) \o sep \o Join(Tail(pieces), sep)

\* C9: for a non-empty separator, the pieces of split(text, separator,
\* None) joined with the separator are the text.
SplitJoinLaw ==
    (sp.pc = "done" /\ sp.limit = None /\ len(pattern) > 0) =>
        Join(sp.result, iter(pattern)) = iter(text)

\* C10: every match index handed to split is at least last_index, the
\* subtraction index - last_index never underflows and split does not
\* panic.
SplitIndexNotBelowLast ==
    /\ sp.pc # "panic"
    /\ (sp.index # None => sp.index.v >= sp.prev_last)

\* C11: split with Some(0) returns the empty list; with Some(n), n >= 1,
\* it returns at most n pieces, and they are the first min(n, k) pieces of
\* the k pieces split returns for the same text and separator with None
\* (which therefore returns).
SplitLimitIsPrefix ==
    /\ (sp.pc = "done" /\ sp.limit = Some(0)) => sp.result = <<>>
    /\ (sp.pc = "done" /\ sp.limit # None /\ sp.limit # Some(0)) =>
          LET unlimited == split(text, pattern, None, sp.overflow_checks)
          IN  /\ ~unlimited.panic
              /\ Len(sp.result) <= sp.limit.v
              /\ sp.result = SubSeq(unlimited.result, 1,
                                    Min(sp.limit.v, Len(unlimited.result)))

\* C12: split("", "", None) is the empty list; a non-empty text split by
\* the empty separator gives one single-unit piece per code unit, in
\* order; the empty text split by a non-empty separator gives exactly one
\* piece, the empty one.
SplitEdgeCases ==
    (sp.pc = "done" /\ sp.limit = None) =>
        /\ (len(text) = 0 /\ len(pattern) = 0) => sp.result = <<>>
        /\ (len(text) > 0 /\ len(pattern) = 0) =>
              /\ Len(sp.result) = len(text)
              /\ \A k \in 1..len(text) :
                    iter(sp.result[k]) = <<iter(text)[k]>>
        /\ (len(text) = 0 /\ len(pattern) > 0) =>
              /\ Len(sp.result) = 1
              /\ iter(sp.result[1]) = <<>>

\* A text of two chunks has been split by the empty separator.
SplitEdgeCasesWitness ==
    /\ sp.pc = "done"
    /\ sp.limit = None
    /\ len(pattern) = 0
    /\ text.t = "ConsString"
    /\ Len(sp.result) >= 3

(***************************************************************************)
(* Properties of the pattern finder on empty texts and patterns (SpecFind) *)
(***************************************************************************)
\* C13: with an empty text and a non-empty pattern the finder yields
\* nothing, and index_of (the first call of next()) returns None.
FinderEmptyTextYieldsNothing ==
    (finder.kind # "none" /\ sp.pc = "none" /\ len(text) = 0 /\ len(pattern) > 0) =>
        /\ Offsets(found) = <<>>
        /\ (found # <<>> => found[1] = None /\ index_of(text, pattern) = None)

\* C14: with an empty pattern the finder yields 0 exactly once on an empty
\* text and 0, 1, ..., |text| - 1 in order and nothing else on a non-empty
\* text; index_of with an empty pattern returns Some(0) for every text.
FinderEmptyPattern ==
    (finder.kind # "none" /\ sp.pc = "none" /\ len(pattern) = 0) =>
        LET expected == IF len(text) = 0 THEN <<0>>
                        ELSE [k \in 1..len(text) |-> k - 1]
        IN  /\ IsPrefix(Offsets(found), expected)
            /\ (NoneCount > 0 => Offsets(found) = expected)
            /\ index_of(text, pattern) = Some(0)

\* The empty pattern has been searched to the end in a text of two chunks,
\* and next() was called once more after it returned None.
FinderEmptyPatternWitness ==
    /\ finder.kind = "Any"
    /\ sp.pc = "none"
    /\ len(pattern) = 0
    /\ text.t = "ConsString"
    /\ NoneCount = 2
    /\ Len(Offsets(found)) >= 3

(***************************************************************************)
(* Properties of hashing and ordering (SpecCons)                           *)
(***************************************************************************)
\* The code units a rope stands for, by the structure of the tree.
RECURSIVE den(_)
den(r) ==
    CASE r.t = "Empty" -> <<>>
      [] r.t \in {"SingleOneByteChar", "SingleTwoByteChar"} -> <<r.c>>
      [] r.t \in {"SeqOneByteString", "SeqTwoByteString"} -> r.v
      [] r.t = "SlicedString" ->
            SubSeq(den(r.root), r.start + 1, r.start + r.length)
      [] r.t = "ConsString" -> den(r.first) \o den(r.second)

\* The lexicographic order of two sequences of code units.
LexCompare(a, b) ==
    LET diff == {k \in 1..Min(Len(a), Len(b)) : a[k] # b[k]}
    IN  IF diff # {}
        THEN LET k == CHOOSE j \in diff : \A i \in diff : j <= i
             IN  IF a[k] < b[k] THEN "Less" ELSE "Greater"
        ELSE IF Len(a) < Len(b) THEN "Less"
        ELSE IF Len(a) > Len(b) THEN "Greater"
        ELSE "Equal"

\* C15: for ropes whose windows are non-empty and inside their roots, the
\* units fed to the hasher are the code units the rope stands for, so two
\* ropes standing for the same units feed the same units whatever their
\* structure and storage; and cmp is the lexicographic order of those
\* units.
HashOrdByValue ==
    (cmpres.done /\ ValidRope(cmpres.a) /\ ValidRope(cmpres.b)) =>
        /\ cmpres.hash_a = den(cmpres.a)
        /\ cmpres.hash_b = den(cmpres.b)
        /\ (den(cmpres.a) = den(cmpres.b) => cmpres.hash_a = cmpres.hash_b)
        /\ cmpres.ord = LexCompare(den(cmpres.a), den(cmpres.b))

\* A slice of a wide leaf and a narrow leaf that stand for the same code
\* units have been hashed and ordered.
HashOrdByValueWitness ==
    /\ cmpres.done
    /\ cmpres.a.t = "SlicedString"
    /\ cmpres.a.root.t = "SeqTwoByteString"
    /\ cmpres.b.t \in {"SingleOneByteChar", "SeqOneByteString"}
    /\ ValidRope(cmpres.a)
    /\ den(cmpres.a) = den(cmpres.b)
    /\ cmpres.ord = "Equal"

AtOutOfBoundPanics ==
    (atres.done /\ atres.index >= IndexedString_len(indexed.val)) =>
        atres.out = {Panic}

\* at(length) has been called on the single chunk of a slice whose buffer
\* goes on after the window.
AtOutOfBoundPanicsWitness ==
    /\ atres.done
    /\ indexed.src.t = "SlicedString"
    /\ indexed.src.root.t = "SeqOneByteString"
    /\ indexed.src.start + indexed.src.length < Len(indexed.src.root.v)
    /\ Len(indexed.val.chunks) = 1
    /\ atres.index = IndexedString_len(indexed.val)
    /\ atres.out = {Panic}

(***************************************************************************)
(* Properties of the narrow/wide predicate and of construction (Spec)      *)
(***************************************************************************)
\* Every code unit of the rope fits in 8 bits.
AllNarrow(r) == \A k \in 1..Len(iter(r)) : iter(r)[k] <= 255

\* C18 as stated: for every rope an operation returns, has_one_byte_char
\* is true if and only if every code unit of the rope is <= 255.
HasOneByteCharIffNarrow ==
    last.op # "none" => (has_one_byte_char(last.out) <=> AllNarrow(last.out))

\* C18 amended: for every rope an operation returns, has_one_byte_char is
\* true only if every code unit of the rope is <= 255.
HasOneByteCharImpliesNarrow ==
    last.op # "none" => (has_one_byte_char(last.out) => AllNarrow(last.out))

\* A slice kept as a SlicedString over a concatenation answers true.
HasOneByteCharImpliesNarrowWitness ==
    /\ last.op = "slice"
    /\ last.out.t = "SlicedString"
    /\ last.out.root.t = "ConsString"
    /\ has_one_byte_char(last.out)

\* C19: new gives Empty for the empty string, SingleOneByteChar for a
\* one-byte ASCII string, SeqOneByteString for any other ASCII string,
\* SingleTwoByteChar for a non-ASCII string of exactly one UTF-16 code
\* unit and SeqTwoByteString for one of two or more; so every Seq leaf new
\* makes has at least two units.
NewClassifiesByUnits ==
    last.op = "new" =>
        LET data == last.data
            units == encode_utf16(data)
        IN  /\ last.out =
                  CASE data = <<>> -> Empty
                    [] data # <<>> /\ is_ascii(data) /\ Len(data) = 1 ->
                          SingleOneByteChar(data[1])
                    [] data # <<>> /\ is_ascii(data) /\ Len(data) > 1 ->
                          SeqOneByteString(data)
                    [] data # <<>> /\ ~is_ascii(data) /\ Len(units) = 1 ->
                          SingleTwoByteChar(units[1])
                    [] OTHER -> SeqTwoByteString(units)
            /\ (last.out.t \in {"SeqOneByteString", "SeqTwoByteString"} =>
                    Len(last.out.v) >= 2)

\* Every SlicedString window lies inside its root; it may be empty.
RECURSIVE InRange(_)
InRange(r) ==
    CASE r.t = "SlicedString" ->
            r.start + r.length <= len(r.root) /\ InRange(r.root)
      [] r.t = "ConsString" -> InRange(r.first) /\ InRange(r.second)
      [] OTHER -> TRUE

\* The k-th call of next() in a run of next() calls returns the k-th code
\* unit the tree stands for, and None after the last; and a slice of a
\* slice iterates like the one slice with the offsets added.
NextYieldsDen ==
    /\ (iterator.op = "next" /\ ~iterator.skipped) =>
            iterator.ret =
                IF iterator.k < Len(den(iterator.src))
                THEN Some(den(iterator.src)[iterator.k + 1])
                ELSE None
    /\ (iterator.op = "next" /\ iterator.src.t = "SlicedString"
            /\ iterator.src.root.t = "SlicedString") =>
            LET outer == iterator.src
                inner == iterator.src.root
            IN  iter(outer) =
                    iter(SlicedString(inner.root, inner.start + outer.start,
                                      Min(outer.length, inner.length - outer.start)))

\* C20 as stated: for every rope nested from leaves by SlicedString and
\* ConsString nodes with start + length <= len(child), repeated next()
\* yields the code units the tree stands for.
IteratorMatchesDenInRange ==
    InRange(iterator.src) => NextYieldsDen

\* C20 amended: the same for ropes whose windows also have length >= 1.
IteratorMatchesDen ==
    ValidRope(iterator.src) => NextYieldsDen

\* A slice of a slice of a slice, the windows narrowing at each level, has
\* been iterated to its end by next() alone.
IteratorMatchesDenWitness ==
    /\ iterator.op = "next"
    /\ ~iterator.skipped
    /\ iterator.nones > 0
    /\ ValidRope(iterator.src)
    /\ iterator.src.t = "SlicedString"
    /\ iterator.src.start > 0
    /\ iterator.src.root.t = "SlicedString"
    /\ iterator.src.root.start > 0
    /\ iterator.src.root.root.t = "SlicedString"
    /\ iterator.src.root.root.start > 0
    /\ iterator.src.length >= 1

(***************************************************************************)
(* Properties of the chunk list of the indexed form (SpecCons)             *)
(***************************************************************************)
\* The number of code units between the offset of chunk i and the offset
\* of the next chunk, or the stored length after the last chunk.
ChunkGap(ix, i) ==
    IF i < Len(ix.chunks)
    THEN ix.chunks[i + 1][1] - ix.chunks[i][1]
    ELSE ix.length - ix.chunks[i][1]

\* A chunk can supply n code units: a Char exactly one, a Seq chunk the n
\* units of its vector from its start on.
ChunkHolds(chunk, n) ==
    IF chunk.t = "Char" THEN n = 1
    ELSE n >= 1 /\ chunk.start + n <= Len(chunk.vec)

\* The code units chunk i stands for.
ChunkUnits(ix, i) ==
    LET chunk == ix.chunks[i][2]
    IN  IF chunk.t = "Char" THEN <<chunk.c>>
        ELSE SubSeq(chunk.vec, chunk.start + 1, chunk.start + ChunkGap(ix, i))

\* The code units of the chunks from chunk i on, in order.
RECURSIVE ChunksFrom(_, _)
ChunksFrom(ix, i) ==
    IF i > Len(ix.chunks) THEN <<>>
    ELSE ChunkUnits(ix, i) \o ChunksFrom(ix, i + 1)

\* C21: for every rope of the data model, the chunk list built by
\* IndexedString::new starts at offset 0, its offsets increase strictly,
\* each gap between neighbouring offsets (and between the last offset and
\* the stored length) is the number of code units the chunk contributes,
\* which is at least 1, and the contributions in order are the code units
\* of the rope, so that they sum to the stored length.
ChunkListInvariant ==
    (indexed.done /\ DataModel(indexed.src)) =>
        LET ix == indexed.val
            n == Len(ix.chunks)
            units == iter(indexed.src)
        IN  /\ (n > 0 => ix.chunks[1][1] = 0)
            /\ (n = 0 => ix.length = 0)
            /\ \A i \in 1..n :
                  /\ ChunkGap(ix, i) >= 1
                  /\ ChunkHolds(ix.chunks[i][2], ChunkGap(ix, i))
            /\ (\A i \in 1..n : ChunkHolds(ix.chunks[i][2], ChunkGap(ix, i)))
                  => ChunksFrom(ix, 1) = units
            /\ ix.length = Len(units)

\* A rope of the data model, a slice of a concatenation of two sequential
\* leaves whose window cuts into both, has been indexed into two chunks,
\* the first of them starting inside its vector.
ChunkListInvariantWitness ==
    /\ indexed.done
    /\ DataModel(indexed.src)
    /\ indexed.src.t = "SlicedString"
    /\ indexed.src.root.t = "ConsString"
    /\ indexed.src.start + indexed.src.length < len(indexed.src.root)
    /\ Len(indexed.val.chunks) = 2
    /\ indexed.val.chunks[1][2].t # "Char"
    /\ indexed.val.chunks[1][2].start > 0
    /\ indexed.val.chunks[2][2].t # "Char"

(***************************************************************************)
(* Properties of the narrowing cast of flatten (Spec)                      *)
(***************************************************************************)
\* The last operation handed a rope to flatten: flatten itself, an append
\* of two non-Empty ropes shorter than 16 together, or a slice with a
\* non-empty window shorter than 16.
FlattenCalled ==
    \/ last.op = "flatten"
    \/ /\ last.op = "append"
       /\ last.a.t # "Empty" /\ last.b.t # "Empty"
       /\ len(last.a) + len(last.b) < MIN_SLICE_LENGTH
    \/ /\ last.op = "slice"
       /\ last.length > 0 /\ last.start < len(last.a)
       /\ Min(len(last.a) - last.start, last.length) < MIN_SLICE_LENGTH

\* The rope the last operation handed to flatten.
FlattenArg ==
    CASE last.op = "append" -> ConsString(last.a, last.b)
      [] last.op = "slice" ->
            SlicedString(last.a, last.start,
                         Min(len(last.a) - last.start, last.length))
      [] OTHER -> last.a

\* C22: whenever flatten is handed a rope whose has_one_byte_char is true,
\* by flatten itself or by the short results of append and slice, every
\* code unit the rope iterates to is <= 255, the cast to 8 bits leaves each
\* of them as it is, and the rope flatten returns iterates to the same
\* code units.
FlattenNarrowingLossless ==
    (FlattenCalled /\ has_one_byte_char(FlattenArg)) =>
        LET units == iter(FlattenArg)
        IN  /\ \A k \in 1..Len(units) :
                  units[k] <= 255 /\ as_u8(units[k]) = units[k]
            /\ iter(last.out) = units

\* A short slice of a concatenation of narrow ropes has gone through the
\* cast to 8 bits and come out as a SeqOneByteString.
FlattenNarrowingLosslessWitness ==
    /\ FlattenCalled
    /\ last.op = "slice"
    /\ last.a.t = "ConsString"
    /\ has_one_byte_char(FlattenArg)
    /\ last.out.t = "SeqOneByteString"
    /\ Len(last.out.v) >= 2

(***************************************************************************)
(* Forward-only search (SpecFind)                                          *)
(***************************************************************************)
\* The value the call of next() in this step returned.
Returned == found'[Len(found')]

\* C23: the finder is forward-only.  In every call of next(), in each of
\* the modes Zero, Any and KMP, an offset returned is greater than every
\* offset returned before it, and once a call has returned None the call
\* returns None.
FinderForwardOnly ==
    [][(sp.pc = "none" /\ Len(found') = Len(found) + 1) =>
            /\ Returned # None =>
                  /\ Returned.some
                  /\ \A k \in 1..Len(found) :
                        found[k] # None /\ found[k].v < Returned.v
            /\ NoneCount > 0 => Returned = None]_vars

\* The KMP finder has returned three offsets and then None, and the call
\* after that has returned None again.
FinderForwardOnlyWitness ==
    /\ finder.kind = "KMP"
    /\ sp.pc = "none"
    /\ Len(found) >= 5
    /\ found[Len(found)] = None
    /\ found[Len(found) - 1] = None
    /\ found[Len(found) - 2] # None
    /\ Len(Offsets(found)) = Len(found) - 2

(***************************************************************************)
(* Termination of the pattern finder (SpecLoopFair)                        *)
(***************************************************************************)
\* Every read of the last iteration is inside its table, no iteration has
\* panicked, and the cursors are in range between iterations.
LoopReadsInBounds ==
    /\ kmp.pc # "panic"
    /\ \A a \in kmp.acc :
          /\ a.idx >= 0
          /\ a.tab = "text" => a.idx < len(text)
          /\ a.tab \in {"pattern", "lps"} => a.idx < len(pattern)
    /\ kmp.pc = "search" => kmp.i <= len(text) /\ kmp.j < len(pattern)
    /\ kmp.pc = "lps" => kmp.i <= len(pattern) /\ kmp.j < kmp.i

\* An iteration that stays in its loop advances i or leaves i and lowers j.
LoopProgress ==
    (kmp.pc # "idle" /\ kmp'.pc = kmp.pc) =>
        \/ kmp'.i > kmp.i
        \/ kmp'.i = kmp.i /\ kmp'.j < kmp.j

\* A call in progress agrees with next() taken in one step when it returns.
LoopAgreesWithNext ==
    (kmp.pc = "idle" /\ kmp.self.kind = "KMP" /\ found # <<>>) =>
        /\ found[Len(found)] = PatternFinder_next(kmp.self).ret
        /\ finder = PatternFinder_next(kmp.self).self

\* C24: the finder always finishes.  Every iteration of the loops of
\* compute_lps_array and KMPPatternFinder::next advances the cursor i or
\* strictly lowers the cursor j, every read of pattern.at, text.at and the
\* lps table is in range (j < |pattern|, i <= |text|), and after finitely
\* many iterations and calls next() has returned None and no call is under
\* way any more, so that every call of next() returns.
FinderFinishes ==
    /\ []LoopReadsInBounds
    /\ [][LoopProgress]_vars
    /\ <>[](kmp.pc = "idle" /\ NoneCount > 0)

\* A KMP search whose table has a non-zero entry has returned two offsets
\* and then None.
FinderFinishesWitness ==
    /\ finder.kind = "KMP"
    /\ finder.done
    /\ kmp.pc = "idle"
    /\ kmp.self.kind = "KMP"
    /\ finder.lps_array # None
    /\ \E k \in 1..Len(finder.lps_array.v) : finder.lps_array.v[k] > 0
    /\ Len(Offsets(found)) >= 2
    /\ found[Len(found)] = None

====
